---- MODULE Spec2Model ----
(***************************************************************************)
(* Model of morse.middleware.dsaam_datastream: the DSAAM/ROS datastream    *)
(* manager (coordinator), the proxy datastream classes it generates, and   *)
(* the DSAAM node it drives.  Times are integer nanoseconds.               *)
(***************************************************************************)
EXTENDS Integers, Sequences, FiniteSets, TLC

----------------------------------------------------------------------------
(* Bounds of the model *)

MaxTicks == 3        \* action() calls per behaviour
MaxMsgs  == 2        \* messages a remote source produces per topic
MaxPub   == 2        \* publish() calls per behaviour

----------------------------------------------------------------------------
(* Program constants and input domains *)

NS_IN_SECOND == 1000000000

default_qsize == 0

NodeFrequencies == {10}              \* blenderapi.getfrequency()
SimStartTimes   == {0}               \* int(NS_IN_SECOND * persistantstorage().time.time)
ComponentFrequencies == {10, 20}     \* component_instance.frequency
Names == <<"c1", "c2">>              \* the components, in registration order
Unset == -1                          \* a kwarg that is absent
QueueSizes == {Unset, 2}             \* kwargs["queue_size"]
StartTimes == {Unset, 0}             \* kwargs["start_time"]
NoSinks == << >>                     \* kwargs["subscribers"] absent: None
SinkLists == {NoSinks, <<"peer">>}
Drifts == {-1, 0}                    \* stamp of a published message minus node time

\* The ROS datastream classes a classpath can name: their base class and
\* their ros_class (message type).
Classes ==
  [ StringPublisher |-> [base |-> "ROSPublisher",  ros_class |-> "String"],
    StringReader    |-> [base |-> "ROSSubscriber", ros_class |-> "String"],
    PoseReader      |-> [base |-> "ROSSubscriber", ros_class |-> "Pose"] ]

Classpaths == { <<"morse.middleware.ros", c>> : c \in DOMAIN Classes }

VARIABLES
  node_time,      \* RosNode.time
  node_dt,        \* RosNode.dt
  t0,             \* start_time handed to the RosNode constructor
  node_pubs,      \* topics set up by setup_publisher: topic -> record
  node_subs,      \* topics set up by setup_subscriber: topic -> inflow record
  init_done,      \* DSAAMROSDatastreamManager.init_done
  init_calls,     \* number of node.init() calls
  step_log,       \* arguments of the node.step() calls, in order
  next_calls,     \* number of node.next() calls
  module_dict,    \* module.__dict__ restricted to the generated proxy classes
  types_created,  \* number of type(...) calls of register_component
  datastreams,    \* component name -> its datastream (proxy instance)
  received,       \* component name -> payloads handed to component callback
  pc,             \* position of the thread in action(): "idle" or "drain"
  next_time,      \* local next_time of the running / last action() call
  ticks,          \* number of action() calls entered
  sent,           \* the node.send calls that succeeded: topic, message, time
  send_calls,     \* number of node.send calls
  pub_calls,      \* number of publish() calls
  reg_calls,      \* number of register_component() calls
  err,            \* outcome of the last operation
  op,             \* the last operation called and its arguments
  node_live,      \* whether the manager still holds its RosNode (self.node)
  sim_frequency   \* blenderapi.getfrequency()

vars == << node_time, node_dt, t0, node_pubs, node_subs, init_done,
           init_calls, step_log, next_calls, module_dict, types_created,
           datastreams, received, pc, next_time, ticks, sent, send_calls,
           pub_calls, reg_calls, err, op, node_live, sim_frequency >>

----------------------------------------------------------------------------
(* Helpers *)

EmptyFn == [x \in {} |-> 0]

Range(f) == { f[x] : x \in DOMAIN f }

\* dsaam.time.Time(sec, nanos): a time in integer nanoseconds.
Time(sec, nanos) == sec * NS_IN_SECOND + nanos

\* get_class(classpath): the class named by the last component of the path.
get_class(classpath) == [ name |-> classpath[2] ] @@ Classes[classpath[2]]

\* issubclass(cls, base) for the datastream classes.
issubclass(base_of_class, base) == base_of_class = base

\* Topic name of a datastream, set by the base class initializer.
topic_name(component_name) == "/" \o component_name

----------------------------------------------------------------------------
(* The proxy datastream: initialize() *)

\* ROSPublisher.determine_queue_size(self): the explicit queue size, or a
\* ConfigurationError when none was given.
determine_queue_size(self) ==
  IF self.kwargs.queue_size # Unset
    THEN [err |-> "ok", value |-> self.kwargs.queue_size]
    ELSE [err |-> "ConfigurationError", value |-> default_qsize]

\* datastream_initialize ignoring the start_time kwarg.
datastream_initialize_ignores_start_time(self, now, after_init) ==
  LET qs         == determine_queue_size(self)
      period     == NS_IN_SECOND \div self.frequency
      dt         == Time(0, period)
      start_time == now
      pub == IF issubclass(self.base, "ROSPublisher")
               THEN (self.topic_name :>
                      [ ros_class  |-> self.ros_class_orig,
                        start_time |-> start_time,
                        dt         |-> dt,
                        queue_size |-> qs.value,
                        sinks      |-> self.kwargs.subscribers,
                        after_init |-> after_init ])
               ELSE EmptyFn
      sub == IF issubclass(self.base, "ROSSubscriber")
               THEN (self.topic_name :>
                      [ ros_class  |-> self.ros_class_orig,
                        callback   |-> self.name,
                        start_time |-> start_time,
                        dt         |-> dt,
                        queue_size |-> qs.value,
                        time       |-> start_time,
                        queue      |-> << >>,
                        produced   |-> 0,
                        after_init |-> after_init ])
               ELSE EmptyFn
  IN IF qs.err # "ok"
       THEN [err |-> qs.err, pubs |-> EmptyFn, subs |-> EmptyFn]
       ELSE [err |-> "ok",   pubs |-> pub,     subs |-> sub]

\* datastream_initialize(self): the setup_publisher / setup_subscriber calls
\* it makes on the node, or the error it raises before making any.
datastream_initialize(self, now, after_init) ==
  LET qs         == determine_queue_size(self)
      period     == NS_IN_SECOND \div self.frequency
      dt         == Time(0, period)
      start_time == IF self.kwargs.start_time # Unset
                      THEN self.kwargs.start_time ELSE now
      pub == IF issubclass(self.base, "ROSPublisher")
               THEN (self.topic_name :>
                      [ ros_class  |-> self.ros_class_orig,
                        start_time |-> start_time,
                        dt         |-> dt,
                        queue_size |-> qs.value,
                        sinks      |-> self.kwargs.subscribers,
                        after_init |-> after_init ])
               ELSE EmptyFn
      sub == IF issubclass(self.base, "ROSSubscriber")
               THEN (self.topic_name :>
                      [ ros_class  |-> self.ros_class_orig,
                        callback   |-> self.name,
                        start_time |-> start_time,
                        dt         |-> dt,
                        queue_size |-> qs.value,
                        time       |-> start_time,
                        queue      |-> << >>,
                        produced   |-> 0,
                        after_init |-> after_init ])
               ELSE EmptyFn
  IN IF qs.err # "ok"
       THEN [err |-> qs.err, pubs |-> EmptyFn, subs |-> EmptyFn]
       ELSE [err |-> "ok",   pubs |-> pub,     subs |-> sub]

----------------------------------------------------------------------------
(* The coordinator: construction and registration *)

\* The kwargs of a datastream; a sink list is given to publishers only.
Kwargs(classpath) ==
  [ queue_size  : QueueSizes,
    start_time  : StartTimes,
    subscribers : IF Classes[classpath[2]].base = "ROSPublisher"
                    THEN SinkLists ELSE {NoSinks} ]

\* The tick duration rounded up instead of down.
node_period_rounded_up(frequency) ==
  Time(0, (NS_IN_SECOND + frequency - 1) \div frequency)

\* dt = Time(nanos=int(NS_IN_SECOND//blenderapi.getfrequency()))
node_period(frequency) == Time(0, NS_IN_SECOND \div frequency)

\* DSAAMROSDatastreamManager.__init__, for a simulation running at freq
\* whose clock reads sim nanoseconds.
manager_init(freq, sim) ==
  /\ sim_frequency = freq
  /\ node_dt   = node_period(freq)
  /\ node_time = Time(0, sim) + node_period(freq)
  /\ t0        = Time(0, sim) + node_period(freq)
  /\ node_live = TRUE
  /\ node_pubs = EmptyFn
  /\ node_subs = EmptyFn
  /\ init_done = FALSE
  /\ init_calls = 0
  /\ step_log = << >>
  /\ next_calls = 0
  /\ module_dict = EmptyFn
  /\ types_created = 0
  /\ datastreams = EmptyFn
  /\ received = EmptyFn
  /\ pc = "idle"
  /\ next_time = 0
  /\ ticks = 0
  /\ sent = << >>
  /\ send_calls = 0
  /\ pub_calls = 0
  /\ reg_calls = 0
  /\ err = "ok"
  /\ op = <<"__init__">>

Init == \E freq \in NodeFrequencies, sim \in SimStartTimes : manager_init(freq, sim)

\* The proxy class register_component creates with type(proxy_name, (klass,), ...).
proxy_class_of(klass) ==
  [ name           |-> "DSAAM" \o klass.name,
    base           |-> klass.base,
    ros_class      |-> "Header",
    ros_class_orig |-> klass.ros_class ]

\* DatastreamManager.register_component: instantiates the datastream class,
\* whose constructor runs initialize(), and keeps the instance.
base_register_component(component_name, frequency, proxy, kwargs) ==
  LET self == [ name           |-> component_name,
                class          |-> proxy.name,
                base           |-> proxy.base,
                ros_class_orig |-> proxy.ros_class_orig,
                topic_name     |-> topic_name(component_name),
                frequency      |-> frequency,
                kwargs         |-> kwargs,
                sequence       |-> 0 ]
      r == datastream_initialize(self, node_time, init_done)
  IN /\ err' = r.err
     /\ node_pubs' = r.pubs @@ node_pubs
     /\ node_subs' = r.subs @@ node_subs
     /\ IF r.err = "ok"
          THEN /\ datastreams' = (component_name :> self) @@ datastreams
               /\ received' = IF issubclass(self.base, "ROSSubscriber")
                                THEN (component_name :> << >>) @@ received
                                ELSE received
          ELSE UNCHANGED <<datastreams, received>>

\* DSAAMROSDatastreamManager.register_component
register_component(component_name, frequency, classpath, kwargs) ==
  LET klass      == get_class(classpath)
      proxy_name == "DSAAM" \o klass.name
  IN /\ pc = "idle"
     /\ reg_calls < Len(Names)
     /\ component_name = Names[reg_calls + 1]
     /\ reg_calls' = reg_calls + 1
     /\ op' = <<"register_component", component_name, klass.name,
               kwargs.queue_size>>
     /\ IF proxy_name \notin DOMAIN module_dict
          THEN /\ module_dict' = (proxy_name :> proxy_class_of(klass)) @@ module_dict
               /\ types_created' = types_created + 1
               /\ base_register_component(component_name, frequency,
                                          proxy_class_of(klass), kwargs)
          ELSE \* proxy_class is not bound on this path: UnboundLocalError
               /\ err' = "UnboundLocalError"
               /\ UNCHANGED <<module_dict, types_created, node_pubs, node_subs,
                              datastreams, received>>
     /\ UNCHANGED <<node_time, node_dt, t0, init_done, init_calls, step_log,
                    next_calls, pc, next_time, ticks, sent, send_calls,
                    pub_calls>>
     /\ UNCHANGED <<node_live, sim_frequency>>

----------------------------------------------------------------------------
(* The DSAAM node: inflows, next_time(), next(), step(), send() *)

Min(S) == CHOOSE x \in S : \A y \in S : x <= y

\* node.next_time(): the earliest time any inflow still expects a message
\* for; no value when the node has no inflow.
node_next_time(subs) == { subs[tp].time : tp \in DOMAIN subs }

\* The k-th message of a remote source: the tuple (m, t, dt), whose payload
\* m carries its own header stamp.
source_message(flow, k) ==
  << [id |-> k, stamp |-> flow.start_time + k * flow.dt],
     flow.start_time + k * flow.dt,
     flow.dt >>

\* A remote publisher sends its next message to a subscribed topic.
source_send(tp) ==
  /\ tp \in DOMAIN node_subs
  /\ node_subs[tp].produced < MaxMsgs
  /\ Len(node_subs[tp].queue) < node_subs[tp].queue_size
  /\ node_subs' = [node_subs EXCEPT
       ![tp].queue = Append(@, source_message(node_subs[tp], node_subs[tp].produced)),
       ![tp].produced = @ + 1]
  /\ UNCHANGED <<node_time, node_dt, t0, node_pubs, init_done, init_calls,
                 step_log, next_calls, module_dict, types_created,
                 datastreams, received, pc, next_time, ticks, sent,
                 send_calls, pub_calls, reg_calls, err, op>>
  /\ UNCHANGED <<node_live, sim_frequency>>

\* dsaam_callback calling the component's callback twice.
dsaam_callback_twice(self_received, topic, message, tmin_next) ==
  Append(Append(self_received, message[1]), message[1])

\* dsaam_callback keeping what it forwards newest-first.
dsaam_callback_reversed(self_received, topic, message, tmin_next) ==
  << message[1] >> \o self_received

\* dsaam_callback(self, topic, message, tmin_next): m, t, dt = message;
\* self.callback(m).  The component's callback appends m to what it received.
dsaam_callback(self_received, topic, message, tmin_next) ==
  Append(self_received, message[1])

\* node.next(): takes the next message of the inflow with the earliest
\* expected time (blocking until it has arrived), hands it to the
\* subscriber's callback and advances the inflow's expected time.
node_next(tp) ==
  LET flow    == node_subs[tp]
      message == Head(flow.queue)
  IN /\ flow.time = Min(node_next_time(node_subs))
     /\ flow.queue # << >>
     /\ node_subs' = [node_subs EXCEPT ![tp].queue = Tail(@),
                                       ![tp].time  = message[2] + message[3]]
     /\ received' = [received EXCEPT ![flow.callback] =
                       dsaam_callback(@, tp, message, message[2] + message[3])]
     /\ next_calls' = next_calls + 1

----------------------------------------------------------------------------
(* The coordinator: action(), in the steps its blocking loop takes *)

\* The drain loop with a non-strict comparison: next_time() <= next_time.
drain_condition_non_strict(subs, bound) ==
  /\ node_next_time(subs) # {}
  /\ Min(node_next_time(subs)) <= bound

\* The drain loop compared against the node's time instead of the boundary
\* node.time + node.dt.
drain_condition_no_dt(subs, bound) ==
  /\ node_next_time(subs) # {}
  /\ Min(node_next_time(subs)) < bound - node_dt

\* The condition of the drain loop: node.next_time() < next_time.
drain_condition(subs, bound) ==
  /\ node_next_time(subs) # {}
  /\ Min(node_next_time(subs)) < bound

\* action() stepping the node to its current time instead of the boundary.
init_or_step_steps_to_now(t) ==
  IF ~init_done
    THEN /\ init_calls' = init_calls + 1
         /\ init_done' = TRUE
         /\ UNCHANGED <<node_time, step_log>>
    ELSE /\ node_time' = node_time
         /\ step_log' = Append(step_log, node_time)
         /\ UNCHANGED <<init_calls, init_done>>

\* action() stepping on every call, the first included.
init_or_step_always_step(t) ==
  /\ node_time' = t
  /\ step_log' = Append(step_log, t)
  /\ IF ~init_done
       THEN init_calls' = init_calls + 1 /\ init_done' = TRUE
       ELSE UNCHANGED <<init_calls, init_done>>

\* The one-time node.init() of the first action() call, node.step(t) in
\* every later one.
init_or_step(t) ==
  IF ~init_done
    THEN /\ init_calls' = init_calls + 1
         /\ init_done' = TRUE
         /\ UNCHANGED <<node_time, step_log>>
    ELSE /\ node_time' = t
         /\ step_log' = Append(step_log, t)
         /\ UNCHANGED <<init_calls, init_done>>

\* action(), from entry to the head of the drain loop.
action_enter ==
  /\ pc = "idle"
  /\ ticks < MaxTicks
  /\ ticks' = ticks + 1
  /\ op' = <<"action">>
  /\ err' = "ok"
  /\ next_time' = node_time + node_dt
  /\ init_or_step(node_time + node_dt)
  /\ pc' = "drain"
  /\ UNCHANGED <<node_dt, t0, node_pubs, node_subs, next_calls, module_dict,
                 types_created, datastreams, received, sent, send_calls,
                 pub_calls, reg_calls>>
  /\ UNCHANGED <<node_live, sim_frequency>>

\* One iteration of the drain loop: node.next().
action_next ==
  /\ pc = "drain"
  /\ drain_condition(node_subs, next_time)
  /\ \E tp \in DOMAIN node_subs : node_next(tp)
  /\ UNCHANGED <<node_time, node_dt, t0, node_pubs, init_done, init_calls,
                 step_log, module_dict, types_created, datastreams, pc,
                 next_time, ticks, sent, send_calls, pub_calls, reg_calls,
                 err, op>>
  /\ UNCHANGED <<node_live, sim_frequency>>

\* action() returning only once every inflow is expected strictly beyond
\* the boundary.
action_return_strictly_beyond ==
  /\ pc = "drain"
  /\ ~drain_condition_non_strict(node_subs, next_time)
  /\ pc' = "idle"
  /\ UNCHANGED <<node_time, node_dt, t0, node_pubs, node_subs, init_done,
                 init_calls, step_log, next_calls, module_dict,
                 types_created, datastreams, received, next_time, ticks,
                 sent, send_calls, pub_calls, reg_calls, err, op>>
  /\ UNCHANGED <<node_live, sim_frequency>>

\* action() giving up the drain when no message is waiting in any queue.
action_return_gives_up ==
  /\ pc = "drain"
  /\ \/ ~drain_condition(node_subs, next_time)
     \/ \A tp \in DOMAIN node_subs : node_subs[tp].queue = << >>
  /\ pc' = "idle"
  /\ UNCHANGED <<node_time, node_dt, t0, node_pubs, node_subs, init_done,
                 init_calls, step_log, next_calls, module_dict,
                 types_created, datastreams, received, next_time, ticks,
                 sent, send_calls, pub_calls, reg_calls, err, op>>
  /\ UNCHANGED <<node_live, sim_frequency>>

\* The drain loop ends and action() returns.
action_return ==
  /\ pc = "drain"
  /\ ~drain_condition(node_subs, next_time)
  /\ pc' = "idle"
  /\ UNCHANGED <<node_time, node_dt, t0, node_pubs, node_subs, init_done,
                 init_calls, step_log, next_calls, module_dict,
                 types_created, datastreams, received, next_time, ticks,
                 sent, send_calls, pub_calls, reg_calls, err, op>>
  /\ UNCHANGED <<node_live, sim_frequency>>

----------------------------------------------------------------------------
(* The proxy datastream: publish() *)

\* The header stamp (secs, nsecs) of a message stamped at nanos.
header_stamp(nanos) ==
  [secs |-> nanos \div NS_IN_SECOND, nsecs |-> nanos % NS_IN_SECOND]

\* The counter incremented before the send instead of after it.
send_and_count_counts_first(name, m, m_time, send_ok) ==
  /\ send_calls' = send_calls + 1
  /\ datastreams' = [datastreams EXCEPT ![name].sequence = @ + 1]
  /\ IF send_ok
       THEN /\ sent' = Append(sent, [ topic |-> datastreams[name].topic_name,
                                      m     |-> m,
                                      time  |-> m_time ])
            /\ err' = "ok"
       ELSE /\ err' = "TransportError"
            /\ UNCHANGED sent

\* A failed send tried a second time before the failure is raised.
send_and_count_retries(name, m, m_time, send_ok) ==
  IF send_ok
    THEN /\ send_calls' = send_calls + 1
         /\ sent' = Append(sent, [ topic |-> datastreams[name].topic_name,
                                   m     |-> m,
                                   time  |-> m_time ])
         /\ datastreams' = [datastreams EXCEPT ![name].sequence = @ + 1]
         /\ err' = "ok"
    ELSE /\ send_calls' = send_calls + 2
         /\ err' = "TransportError"
         /\ UNCHANGED <<sent, datastreams>>

\* self.dsaam_node.send(self.topic_name, m, m_time); self.sequence += 1
\* A send that fails raises before the counter is touched.
send_and_count(name, m, m_time, send_ok) ==
  /\ send_calls' = send_calls + 1
  /\ IF send_ok
       THEN /\ sent' = Append(sent, [ topic |-> datastreams[name].topic_name,
                                      m     |-> m,
                                      time  |-> m_time ])
            /\ datastreams' = [datastreams EXCEPT ![name].sequence = @ + 1]
            /\ err' = "ok"
       ELSE /\ err' = "TransportError"
            /\ UNCHANGED <<sent, datastreams>>

\* dsaam_publish resolving a time discrepancy by writing the message's time
\* into the node instead of the node's time into m_time.
dsaam_publish_sets_node_time(name, stamp) ==
  LET self   == datastreams[name]
      m      == [header |-> [stamp |-> stamp]]
      m_time == Time(m.header.stamp.secs, m.header.stamp.nsecs)
  IN /\ pc = "idle"
     /\ pub_calls < MaxPub
     /\ issubclass(self.base, "ROSPublisher")
     /\ pub_calls' = pub_calls + 1
     /\ op' = <<"publish", name>>
     /\ node_time' = m_time
     /\ \E send_ok \in BOOLEAN : send_and_count(name, m, m_time, send_ok)
     /\ UNCHANGED <<node_dt, t0, node_pubs, node_subs, init_done,
                    init_calls, step_log, next_calls, module_dict,
                    types_created, received, pc, next_time, ticks,
                    reg_calls>>
     /\ UNCHANGED <<node_live, sim_frequency>>

\* dsaam_publish(self, m)
dsaam_publish(name, stamp) ==
  LET self   == datastreams[name]
      m      == [header |-> [stamp |-> stamp]]
      m_time == Time(m.header.stamp.secs, m.header.stamp.nsecs)
  IN /\ pc = "idle"
     /\ pub_calls < MaxPub
     /\ issubclass(self.base, "ROSPublisher")
     /\ pub_calls' = pub_calls + 1
     /\ op' = <<"publish", name>>
     /\ IF m_time # node_time
          THEN \* m_time(node.time): whether a Time instance can be called
               \* is the dsaam library's affair; both outcomes are taken.
               \/ \* the call resets m_time; m keeps its stamp
                  \E send_ok \in BOOLEAN :
                    send_and_count(name, m, node_time, send_ok)
               \/ \* a Time instance is not callable
                  /\ err' = "TypeError"
                  /\ UNCHANGED <<sent, send_calls, datastreams>>
          ELSE \E send_ok \in BOOLEAN :
                 send_and_count(name, m, m_time, send_ok)
     /\ UNCHANGED <<node_time, node_dt, t0, node_pubs, node_subs, init_done,
                    init_calls, step_log, next_calls, module_dict,
                    types_created, received, pc, next_time, ticks,
                    reg_calls>>
     /\ UNCHANGED <<node_live, sim_frequency>>

----------------------------------------------------------------------------
(* The coordinator: finalize() *)

\* DSAAMROSDatastreamManager.finalize: after the base class's finalize,
\* `del node` names a local that was never bound and raises
\* UnboundLocalError; self.node is not touched.  The host calls nothing
\* after finalize.
finalize ==
  /\ pc = "idle"
  /\ pc' = "finalized"
  /\ op' = <<"finalize">>
  /\ err' = "UnboundLocalError"
  /\ node_live' = node_live
  /\ UNCHANGED <<node_time, node_dt, t0, node_pubs, node_subs, init_done,
                 init_calls, step_log, next_calls, module_dict,
                 types_created, datastreams, received, next_time, ticks,
                 sent, send_calls, pub_calls, reg_calls, sim_frequency>>

----------------------------------------------------------------------------
(* The specification *)

Next ==
  \/ \E n \in Range(Names), f \in ComponentFrequencies, cp \in Classpaths :
       \E kw \in Kwargs(cp) : register_component(n, f, cp, kw)
  \/ action_enter
  \/ action_next
  \/ action_return
  \/ \E n \in DOMAIN datastreams, d \in Drifts :
       dsaam_publish(n, header_stamp(node_time + d))
  \/ \E tp \in DOMAIN node_subs : source_send(tp)
  \/ finalize

Spec == Init /\ [][Next]_vars

\* The manager constructed over a wider range of simulation frequencies,
\* then registrations and action() calls on a node nothing arrives at.
WideFrequencies == {2, 3, 7, 10, 60, 1000, NS_IN_SECOND}

InitFreq ==
  \E freq \in WideFrequencies, sim \in SimStartTimes : manager_init(freq, sim)

NextFreq ==
  \/ \E n \in Range(Names), f \in ComponentFrequencies, cp \in Classpaths :
       \E kw \in Kwargs(cp) : register_component(n, f, cp, kw)
  \/ action_enter
  \/ action_return

SpecFreq == InitFreq /\ [][NextFreq]_vars

\* The topics a component can be given.
Topics == { topic_name(Names[i]) : i \in DOMAIN Names }

\* Registrations, action() calls and remote sources, with the drain loop of
\* a running action() call making progress (it either calls node.next() or
\* returns) and every remote source sending while it has a message left and
\* room in the queue.
NextDrain ==
  \/ \E n \in Range(Names), f \in ComponentFrequencies, cp \in Classpaths :
       \E kw \in Kwargs(cp) : register_component(n, f, cp, kw)
  \/ action_enter
  \/ action_next
  \/ action_return
  \/ \E tp \in DOMAIN node_subs : source_send(tp)

FairSpec ==
  /\ Init
  /\ [][NextDrain]_vars
  /\ WF_vars(action_next)
  /\ WF_vars(action_return)
  /\ \A tp \in Topics : WF_vars(source_send(tp))

----------------------------------------------------------------------------
(* Properties *)

\* Number of payloads with identity k in a callback log.
Count(log, k) == Cardinality({ i \in DOMAIN log : log[i].id = k })

\* Every message of every subscribed topic stamped before bound has been
\* handed to its subscriber's callback exactly once.
DeliveredBelow(subs, recv, bound) ==
  \A tp \in DOMAIN subs : \A k \in 0..MaxMsgs :
    source_message(subs[tp], k)[2] < bound
      => Count(recv[subs[tp].callback], k) = 1

\* C1 (completeness): whenever action() returns, every message stamped
\* strictly before that call's boundary node.time + node.dt has been
\* delivered to its subscriber callback exactly once, and no message is ever
\* delivered twice.
C1_Completeness ==
  /\ [][ (pc = "drain" /\ pc' = "idle")
           => DeliveredBelow(node_subs', received', next_time') ]_vars
  /\ [](\A n \in DOMAIN received : \A k \in 0..MaxMsgs :
           Count(received[n], k) <= 1)

\* An action() call has returned after delivering messages of two topics,
\* two of them to one subscriber.
C1_Witness ==
  /\ pc = "idle"
  /\ ticks >= 1
  /\ \E n1, n2 \in DOMAIN received :
       n1 # n2 /\ Len(received[n1]) >= 2 /\ Len(received[n2]) >= 1

C3_InitThenStep ==
  /\ [][ ticks' = ticks + 1 =>
           /\ next_time' = node_time + node_dt
           /\ IF ticks = 0
                THEN init_calls' = init_calls + 1 /\ step_log' = step_log
                ELSE /\ init_calls' = init_calls
                     /\ step_log' = Append(step_log, node_time + node_dt) ]_vars
  /\ [](Len(step_log) >= 1 => step_log[1] = t0 + node_dt)

\* The second action() call has stepped, after the first one initialised.
C3_Witness ==
  /\ ticks = 2
  /\ init_calls = 1
  /\ Len(step_log) = 1

\* C4, as claimed: node.init() is called exactly once, after every
\* setup_publisher / setup_subscriber call and before the first node.next(),
\* and init_done never returns to false.
C4_Original ==
  /\ [](/\ init_calls <= 1
        /\ init_done <=> (init_calls = 1)
        /\ next_calls > 0 => init_calls = 1
        /\ \A tp \in DOMAIN node_pubs : ~node_pubs[tp].after_init
        /\ \A tp \in DOMAIN node_subs : ~node_subs[tp].after_init)
  /\ [][init_done => init_done']_vars

\* The generated proxy classes for one message type.
ProxiesOf(dict, ros_class) ==
  { pn \in DOMAIN dict : dict[pn].ros_class_orig = ros_class }

\* C5, as claimed: a register_component call (with an explicit queue size)
\* for a message type that a registered component already uses succeeds,
\* creates no second proxy type and gives the component its own datastream.
C5_Original ==
  [][ ( /\ reg_calls' = reg_calls + 1
        /\ op'[4] # Unset
        /\ \E n \in DOMAIN datastreams :
             datastreams[n].ros_class_orig = Classes[op'[3]].ros_class )
      => /\ err' = "ok"
         /\ types_created' = types_created
         /\ Cardinality(ProxiesOf(module_dict', Classes[op'[3]].ros_class)) = 1
         /\ op'[2] \in DOMAIN datastreams' ]_vars

\* C6, as claimed: every publish() call completes (short of a failing
\* node.send), and the time handed to node.send and the stamp carried by the
\* message sent both equal the node's time.
C6_Original ==
  [][ pub_calls' = pub_calls + 1
      => /\ err' \in {"ok", "TransportError"}
         /\ err' = "ok" =>
              LET last == sent'[Len(sent')]
              IN /\ last.time = node_time
                 /\ Time(last.m.header.stamp.secs,
                         last.m.header.stamp.nsecs) = node_time ]_vars

\* C7, as claimed: register_component after node.init() fails with a
\* ConfigurationError and sets up no topic on the node.
C7_Original ==
  [][ (reg_calls' = reg_calls + 1 /\ init_done)
      => /\ err' = "ConfigurationError"
         /\ node_pubs' = node_pubs
         /\ node_subs' = node_subs ]_vars

\* Number of successful node.send calls on a topic.
SuccessfulSends(tp) == Cardinality({ i \in DOMAIN sent : sent[i].topic = tp })

\* C8: a datastream's sequence counter grows by exactly 1 in a publish() whose
\* node.send succeeds and is unchanged otherwise, so it always equals the
\* number of successful publishes of that datastream and never decreases.
C8_SequenceCounts ==
  /\ [](\A n \in DOMAIN datastreams :
          datastreams[n].sequence = SuccessfulSends(datastreams[n].topic_name))
  /\ [][ \A n \in DOMAIN datastreams :
           /\ datastreams'[n].sequence >= datastreams[n].sequence
           /\ pub_calls' = pub_calls + 1 =>
                datastreams'[n].sequence = datastreams[n].sequence +
                  (IF op'[2] = n /\ err' = "ok" THEN 1 ELSE 0) ]_vars

\* A publish whose stamp was corrected has been counted, and a later publish
\* of the same datastream failed in node.send.
C8_Witness ==
  /\ pub_calls = 2
  /\ err = "TransportError"
  /\ op[1] = "publish"
  /\ datastreams[op[2]].sequence = 1
  /\ Len(sent) = 1
  /\ sent[1].time # Time(sent[1].m.header.stamp.secs,
                         sent[1].m.header.stamp.nsecs)

\* action() is in its drain loop, waiting on an inflow that is due before
\* the boundary and whose source has gone silent.
Stalled ==
  /\ pc = "drain"
  /\ \E tp \in DOMAIN node_subs :
       /\ node_subs[tp].time < next_time
       /\ node_subs[tp].queue = << >>
       /\ node_subs[tp].produced = MaxMsgs

\* C9: action() leaves the drain loop only when node.next_time() is no
\* longer below the boundary; while a source that is due before the boundary
\* stays silent, action() stays in the loop.
C9_NoExitButGuard ==
  [][ /\ (pc = "drain" /\ pc' = "idle")
        => ~drain_condition(node_subs, next_time)
      /\ Stalled => Stalled' ]_vars

\* A stalled drain, after the loop has already delivered a message.
C9_Witness ==
  /\ Stalled
  /\ next_calls >= 1

\* C10, as claimed: a register_component call without an explicit queue size
\* fails with a ConfigurationError, before node.init() and without setting
\* up a topic, and no topic is ever set up with the default queue size 0.
C10_Original ==
  /\ [][ (reg_calls' = reg_calls + 1 /\ op'[4] = Unset)
         => /\ err' = "ConfigurationError"
            /\ init_calls' = init_calls
            /\ node_pubs' = node_pubs
            /\ node_subs' = node_subs ]_vars
  /\ [](/\ \A tp \in DOMAIN node_pubs : node_pubs[tp].queue_size # default_qsize
        /\ \A tp \in DOMAIN node_subs : node_subs[tp].queue_size # default_qsize)

\* C11, as claimed: finalize() completes without raising and releases the
\* node the manager owns, so that no live node is held afterwards.
C11_Original ==
  /\ [][ (pc = "idle" /\ pc' = "finalized")
          => (err' = "ok" /\ ~node_live') ]_vars
  /\ [](pc = "finalized" => ~node_live)

\* C12: a publish() whose node.send fails ends with that failure raised to
\* its caller after exactly one node.send attempt, and no publish() calls
\* node.next or node.step or waits in the drain loop.
C12_SendFailurePropagates ==
  [][ pub_calls' = pub_calls + 1
      => /\ send_calls' \in {send_calls, send_calls + 1}
         /\ (send_calls' # send_calls /\ sent' = sent)
              => (err' = "TransportError" /\ send_calls' = send_calls + 1)
         /\ err' = "TransportError" => send_calls' = send_calls + 1
         /\ next_calls' = next_calls
         /\ step_log' = step_log
         /\ pc' = "idle" ]_vars

\* The first publish() of a run failed in node.send, after one attempt.
C12_Witness ==
  /\ op[1] = "publish"
  /\ err = "TransportError"
  /\ pub_calls = 1
  /\ send_calls = 1
  /\ sent = << >>

\* C13: each dsaam_callback invocation by node.next() calls the bound
\* component's callback exactly once, with the payload m of the dispatched
\* (m, t, dt) alone; no other component is called and the node's time, dt,
\* init flag and publishers are left as they were.
C13_PayloadOnlyOnce ==
  [][ next_calls' = next_calls + 1
      => /\ \E tp \in DOMAIN node_subs :
              /\ node_subs[tp].queue # << >>
              /\ node_subs'[tp].queue = Tail(node_subs[tp].queue)
              /\ received' = [received EXCEPT ![node_subs[tp].callback] =
                                Append(@, Head(node_subs[tp].queue)[1])]
         /\ UNCHANGED <<node_time, node_dt, init_done, node_pubs>> ]_vars

\* The first dispatch of a run has reached a component's callback.
C13_Witness ==
  /\ pc = "drain"
  /\ next_calls = 1
  /\ \E n \in DOMAIN received : Len(received[n]) = 1

C15_StrictGuard ==
  /\ [](\A n \in DOMAIN received : \A i \in DOMAIN received[n] :
          received[n][i].stamp < next_time)
  /\ [][ next_calls' = next_calls + 1
          => /\ pc = "drain"
             /\ node_next_time(node_subs) # {}
             /\ Min(node_next_time(node_subs)) < next_time ]_vars
  /\ [][ (pc = "drain" /\ pc' = "idle" /\ ticks >= 3)
          => \A tp \in DOMAIN node_subs : \A k \in 0..MaxMsgs :
               source_message(node_subs[tp], k)[2] = next_time - node_dt
                 => Count(received[node_subs[tp].callback], k) = 1 ]_vars

\* The third action() call has returned and dispatched a message stamped at
\* t0 + dt, the boundary of the first two calls.
C15_Witness ==
  /\ pc = "idle"
  /\ ticks = 3
  /\ \E n \in DOMAIN received : \E i \in DOMAIN received[n] :
       received[n][i].stamp = t0 + node_dt

\* C16: publish() and dsaam_callback leave the node's time, dt, init flag
\* and topics as they were; the only thing a publish() does to the node is
\* its node.send; and the node's time changes only in action(), to the
\* argument of its node.step call.
C16_AdaptersLeaveNode ==
  [][ /\ pub_calls' = pub_calls + 1
           => /\ UNCHANGED <<node_time, node_dt, init_done, init_calls,
                             step_log, next_calls, node_pubs, node_subs>>
              /\ \/ sent' = sent
                 \/ /\ send_calls' = send_calls + 1
                    /\ Len(sent') = Len(sent) + 1
                    /\ SubSeq(sent', 1, Len(sent)) = sent
      /\ next_calls' = next_calls + 1
           => UNCHANGED <<node_time, node_dt, init_done, init_calls,
                          step_log, node_pubs, sent, send_calls>>
      /\ node_time' # node_time
           => /\ ticks' = ticks + 1
              /\ step_log' = Append(step_log, node_time') ]_vars

\* A publish has been sent and a message dispatched, and action() has
\* stepped the node's time since construction.
C16_Witness ==
  /\ Len(sent) >= 1
  /\ next_calls >= 1
  /\ node_time > t0

\* The one setup call a successful registration of component n made on the
\* node: topic tp newly set up in after, everything else in before kept.
OneSetup(before, after, tp) ==
  /\ tp \notin DOMAIN before
  /\ DOMAIN after = DOMAIN before \cup {tp}
  /\ \A other \in DOMAIN before : after[other] = before[other]

\* C17: initializing a datastream makes exactly one setup call on the node,
\* the one of its role (setup_publisher with the sink list, None when not
\* given; setup_subscriber with the datastream's own dsaam_callback), for
\* the datastream's own topic name, with start time the start_time kwarg or
\* else the node's time at registration, and dt the component's period.
C17_SetupMatchesRole ==
  [][ (reg_calls' = reg_calls + 1 /\ err' = "ok")
      => LET n     == op'[2]
             d     == datastreams'[n]
             tp    == d.topic_name
             start == IF d.kwargs.start_time # Unset
                        THEN d.kwargs.start_time ELSE node_time
             setup == IF Classes[op'[3]].base = "ROSPublisher"
                        THEN node_pubs'[tp] ELSE node_subs'[tp]
         IN /\ n \notin DOMAIN datastreams
            /\ IF Classes[op'[3]].base = "ROSPublisher"
                 THEN /\ OneSetup(node_pubs, node_pubs', tp)
                      /\ node_subs' = node_subs
                      /\ node_pubs'[tp].sinks = d.kwargs.subscribers
                 ELSE /\ OneSetup(node_subs, node_subs', tp)
                      /\ node_pubs' = node_pubs
                      /\ node_subs'[tp].callback = n
            /\ setup.ros_class = Classes[op'[3]].ros_class
            /\ setup.start_time = start
            /\ setup.dt * d.frequency <= NS_IN_SECOND
            /\ NS_IN_SECOND < (setup.dt + 1) * d.frequency
            /\ setup.queue_size = d.kwargs.queue_size ]_vars

\* A publisher set up with a sink list and a start time override, and a
\* subscriber set up, after the node's time had advanced, with the node's
\* time as start time.
C17_Witness ==
  /\ \E tp \in DOMAIN node_pubs :
       node_pubs[tp].sinks = <<"peer">> /\ node_pubs[tp].start_time = 0
  /\ \E tp \in DOMAIN node_subs :
       node_subs[tp].start_time = t0 + node_dt

\* C18: the first action() call leaves the node's time at t0, so the first
\* and the second call both use the boundary t0 + dt; the k-th call, k >= 2,
\* uses the boundary t0 + (k-1)*dt and leaves the node's time equal to it;
\* boundaries never decrease and grow strictly from the second call on.
C18_Boundaries ==
  /\ [](/\ ticks >= 1 =>
             next_time = t0 + (IF ticks = 1 THEN 1 ELSE ticks - 1) * node_dt
        /\ ticks <= 1 => node_time = t0
        /\ ticks >= 2 => node_time = next_time)
  /\ [][ ticks' = ticks + 1
          => /\ ticks = 1 => next_time' = next_time
             /\ ticks >= 2 => next_time' > next_time ]_vars

\* The third action() call has returned with the node at t0 + 2*dt.
C18_Witness ==
  /\ pc = "idle"
  /\ ticks = 3
  /\ next_time = t0 + 2 * node_dt
  /\ node_time = t0 + 2 * node_dt

\* C19: every node.step(t) call of action() has t = node.time + node.dt,
\* strictly greater than the node's time at the call (dt > 0) and than the
\* argument of the previous node.step call.
C19_StepsForward ==
  [][ Len(step_log') = Len(step_log) + 1
      => LET t == step_log'[Len(step_log')]
         IN /\ t = node_time + node_dt
            /\ t > node_time
            /\ t > 0
            /\ step_log # << >> => t > step_log[Len(step_log)] ]_vars

\* Two node.step calls have been made, at a frequency whose period does not
\* divide a second.
C19_Witness ==
  /\ sim_frequency = 7
  /\ Len(step_log) = 2
  /\ step_log[2] > step_log[1]

\* Every subscribed source has, among the messages it will send, one that
\* moves the inflow's expected time to the boundary or beyond.
SourcesReachBoundary ==
  \A tp \in DOMAIN node_subs :
    node_subs[tp].start_time + MaxMsgs * node_subs[tp].dt >= next_time

\* C20: when every subscribed source eventually delivers up to the boundary,
\* a running action() call eventually returns, having called node.next() at
\* most once per message sent; with no subscriber, or with no inflow
\* expected below the boundary, it returns without calling node.next().
C20_TickReturns ==
  /\ (pc = "drain" /\ SourcesReachBoundary) ~> (pc = "idle")
  /\ [][ (pc = "drain" /\ ~drain_condition(node_subs, next_time))
          => (next_calls' = next_calls /\ (pc' # pc => pc' = "idle")) ]_vars
  /\ [][ next_calls' # next_calls
          => /\ next_calls' = next_calls + 1
             /\ \E tp \in DOMAIN node_subs :
                  /\ node_subs[tp].time < next_time
                  /\ node_subs[tp].queue # << >> ]_vars

\* The second action() call has returned after draining two messages from
\* an inflow that started below the boundary.
C20_Witness ==
  /\ pc = "idle"
  /\ ticks = 2
  /\ next_calls = 2
  /\ \E tp \in DOMAIN node_subs :
       /\ node_subs[tp].start_time < next_time
       /\ node_subs[tp].time >= next_time

====
